---- MODULE Spec2Model ----
(***************************************************************************)
(* A model of scrape_airbnb.py.                                            *)
(*                                                                         *)
(* Spec / FairSpec : run() as a state machine: get_listing_urls (the       *)
(*   collect/scroll loop over the search feed), the per-page loop, the     *)
(*   finally block and the CSV write.  The detail pages are abstract here  *)
(*   (which fields extract_host_block resolved, which awaits raised).      *)
(* SpecPage / SpecHost : one iteration of the per-page loop in detail:     *)
(*   extract_host_block on a DOM tree, the rating regular expressions on   *)
(*   strings, extract_from_host_profile, and the row run() assembles.      *)
(***************************************************************************)
EXTENDS Integers, Sequences, FiniteSets, TLC

VARIABLES
    \* ---- run() and get_listing_urls
    pc,           \* position in run()
    max_urls,     \* MAX_LISTINGS, read from the environment
    max_minutes,  \* MAX_MINUTES, read from the environment
    urls,         \* the local set `urls` of get_listing_urls
    elapsed,      \* time.time() - t0, in seconds
    last_height,  \* the local last_height
    urls_list,    \* the list get_listing_urls returned (run's `urls`)
    i,            \* index of the reference being processed (enumerate)
    cur,          \* what extract_host_block resolved on the current page
    rows,         \* run's `rows`
    open_pages,   \* pages open in the browser context
    raised,       \* an exception is propagating out of run()
    saved,        \* the CSV has been written
    \* ---- history of the run (not program state)
    order,        \* references in the order they were first added to urls
    stagnant,     \* consecutive cycles whose harvest added no reference
    stop,         \* how the collect loop ended
    last_event,   \* outcome of the reference processed last
    \* ---- one detail page in detail
    ppc,          \* position in the per-page body
    dom,          \* the listing page's DOM tree
    labels,       \* aria-labels of the nodes under the host section
    secText,      \* rating-bearing text of the host section
    blk,          \* result of extract_host_block
    out,          \* result of extract_from_host_profile
    row           \* the row appended for this page

runVars == <<pc, max_urls, max_minutes, urls, elapsed, last_height, urls_list,
             i, cur, rows, open_pages, raised, saved, order, stagnant, stop,
             last_event>>
pageVars == <<ppc, dom, labels, secText, blk, out, row>>
vars == <<runVars, pageVars>>


----------------------------------------------------------------------------
\* Bounds of the model.

\* number of distinct listings the feed can show
NRooms == 3
\* largest MAX_LISTINGS tried
MaxListings == 2
\* largest MAX_MINUTES tried
MaxMinutes == 1
\* most anchors harvested in one cycle
MaxAnchors == 2
\* document.body.scrollHeight ranges over 0..MaxHeight
MaxHeight == 1
\* the count of consecutive cycles without growth is kept up to this value
MaxStagnant == 2

\* seconds one collect/scroll cycle can take
CycleSecs == {20, 40}

Min(a, b) == IF a < b THEN a ELSE b

----------------------------------------------------------------------------
\* get_listing_urls

\* An href attribute the selector can return: a listing link "/rooms/<room>"
\* with or without a "?..." query.  (A missing href or one without "/rooms/"
\* does not match 'a[href^="/rooms/"], a[href*="/rooms/"]'; Harvest keeps the
\* two tests of the code.)
RoomHref == [kind : {"room"}, room : 1..NRooms, query : BOOLEAN]
Href == RoomHref

\* "/rooms/" in h
IsRoomHref(h) == h.kind = "room"

\* urljoin(page.url, h) with the query kept: two references to one listing
CanonicalKeepQuery(h) == h

\* urljoin(page.url, h.split('?')[0])
Canonical(h) == [h EXCEPT !.query = FALSE]

\* the for loop over hrefs: skip empty and non-listing hrefs, add the
\* canonical reference, stop as soon as len(urls) >= max_urls.
\* The result is the pair <<set, first-seen order>>.
RECURSIVE Harvest(_, _, _, _)
Harvest(set, ord, hrefs, max) ==
    IF hrefs = <<>> THEN <<set, ord>>
    ELSE LET h == Head(hrefs) IN
         IF h.kind = "none" \/ ~IsRoomHref(h)
         THEN Harvest(set, ord, Tail(hrefs), max)
         ELSE LET u == Canonical(h)
                  set2 == set \cup {u}
                  ord2 == IF u \in set THEN ord ELSE Append(ord, u)
              IN IF Cardinality(set2) >= max
                 THEN <<set2, ord2>>
                 ELSE Harvest(set2, ord2, Tail(hrefs), max)

\* uniq(seq): first occurrences, in order
RECURSIVE uniqFrom(_, _)
uniqFrom(seq, seen) ==
    IF seq = <<>> THEN <<>>
    ELSE IF Head(seq) \in seen THEN uniqFrom(Tail(seq), seen)
         ELSE <<Head(seq)>> \o uniqFrom(Tail(seq), seen \cup {Head(seq)})

uniq(seq) == uniqFrom(seq, {})

\* list(urls): a Python set of str iterates in hash order, which differs from
\* run to run: any arrangement of the set's elements
ListOfSet(set) ==
    {s \in [1..Cardinality(set) -> set] : \A a, b \in DOMAIN s : a # b => s[a] # s[b]}

\* seq[:n] for n >= 0
Take(seq, n) == SubSeq(seq, 1, Min(n, Len(seq)))

\* the while condition with the time test dropped
LoopCondNoBudget(set, max, el, minutes) == Cardinality(set) < max

\* len(urls) < max_urls and (time.time()-t0) < MAX_MINUTES*60
LoopCond(set, max, el, minutes) == Cardinality(set) < max /\ el < minutes * 60

HrefSeqs == UNION {[1..n -> Href] : n \in 0..MaxAnchors}

\* await page.goto(START_URL); wait_idle; dismiss_overlays; urls=set(); t0; last_height=0
GotoStart ==
    /\ pc = "goto_start"
    /\ pc' = "collect"
    /\ UNCHANGED <<max_urls, max_minutes, urls, elapsed, last_height,
                   urls_list, i, cur, rows, open_pages, raised, saved, order,
                   stagnant, stop, last_event>>
    /\ UNCHANGED pageVars

\* page.goto(START_URL) raises: nothing in get_listing_urls or run() catches it
GotoStartRaises ==
    /\ pc = "goto_start"
    /\ pc' = "finally"
    /\ raised' = TRUE
    /\ stop' = "error"
    /\ UNCHANGED <<max_urls, max_minutes, urls, elapsed, last_height,
                   urls_list, i, cur, rows, open_pages, saved, order,
                   stagnant, last_event>>
    /\ UNCHANGED pageVars

\* the while condition holds; the anchors are read and harvested
HarvestCycle ==
    /\ pc = "collect"
    /\ LoopCond(urls, max_urls, elapsed, max_minutes)
    /\ \E hrefs \in HrefSeqs :
         LET got == Harvest(urls, order, hrefs, max_urls) IN
         /\ urls' = got[1]
         /\ order' = got[2]
         /\ stagnant' = IF got[1] = urls THEN Min(stagnant + 1, MaxStagnant) ELSE 0
    /\ pc' = "scroll"
    /\ UNCHANGED <<max_urls, max_minutes, elapsed, last_height, urls_list, i,
                   cur, rows, open_pages, raised, saved, stop, last_event>>
    /\ UNCHANGED pageVars

\* page.eval_on_selector_all raises at the start of a cycle
HarvestRaises ==
    /\ pc = "collect"
    /\ LoopCond(urls, max_urls, elapsed, max_minutes)
    /\ pc' = "finally"
    /\ raised' = TRUE
    /\ stop' = "error"
    /\ UNCHANGED <<max_urls, max_minutes, urls, elapsed, last_height,
                   urls_list, i, cur, rows, open_pages, saved, order,
                   stagnant, last_event>>
    /\ UNCHANGED pageVars

\* mouse.wheel, sleep(0.6), the height read and the page-end test
ScrollAndMeasure ==
    /\ pc = "scroll"
    /\ \E height \in 0..MaxHeight, dt \in CycleSecs :
         /\ elapsed' = elapsed + dt
         /\ IF height = last_height
            THEN /\ pc' = "return"
                 /\ stop' = "page_end"
                 /\ UNCHANGED last_height
            ELSE /\ last_height' = height
                 /\ pc' = "collect"
                 /\ UNCHANGED stop
    /\ UNCHANGED <<max_urls, max_minutes, urls, urls_list, i, cur, rows,
                   open_pages, raised, saved, order, stagnant, last_event>>
    /\ UNCHANGED pageVars

\* page.mouse.wheel or page.evaluate raises
ScrollRaises ==
    /\ pc = "scroll"
    /\ pc' = "finally"
    /\ raised' = TRUE
    /\ stop' = "error"
    /\ UNCHANGED <<max_urls, max_minutes, urls, elapsed, last_height,
                   urls_list, i, cur, rows, open_pages, saved, order,
                   stagnant, last_event>>
    /\ UNCHANGED pageVars

\* the while condition is false
LoopExit ==
    /\ pc = "collect"
    /\ ~LoopCond(urls, max_urls, elapsed, max_minutes)
    /\ pc' = "return"
    /\ stop' = "limit"
    /\ UNCHANGED <<max_urls, max_minutes, urls, elapsed, last_height,
                   urls_list, i, cur, rows, open_pages, raised, saved, order,
                   stagnant, last_event>>
    /\ UNCHANGED pageVars

\* return uniq(list(urls))[:max_urls]: the locals of get_listing_urls are
\* gone and run() enters its for loop
ReturnUrls ==
    /\ pc = "return"
    /\ \E l \in ListOfSet(urls) :
         /\ urls_list' = Take(uniq(l), max_urls)
         /\ pc' = IF Take(uniq(l), max_urls) = <<>> THEN "finally" ELSE "page_goto"
    /\ i' = 1
    /\ urls' = {}
    /\ elapsed' = 0
    /\ last_height' = 0
    /\ order' = <<>>
    /\ stagnant' = 0
    /\ UNCHANGED <<max_urls, max_minutes, cur, rows, open_pages, raised,
                   saved, stop, last_event>>
    /\ UNCHANGED pageVars

----------------------------------------------------------------------------
\* run(): the per-page loop, the finally block, the CSV write

\* which fields extract_host_block resolved
NoCur == [host_url |-> FALSE, host_name |-> FALSE, host_rating |-> FALSE]
CurSet == [host_url : BOOLEAN, host_name : BOOLEAN, host_rating : BOOLEAN]

\* if host_url or (not host_rating) or (not host_name)
NeedsEnrich(hasUrl, hasName, hasRating) == hasUrl \/ ~hasRating \/ ~hasName

\* the finally of extract_from_host_profile skipped when the body raised
CloseOnSuccessOnly(n, bodyRaised) == IF bodyRaised THEN n ELSE n - 1

\* finally: await p.close(), whether the body of the try raised or not
CloseProfilePage(n, bodyRaised) == n - 1

\* end of one iteration of `for i,u in enumerate(urls,1)`
NextRef(k) == IF k + 1 > Len(urls_list) THEN "finally" ELSE "page_goto"

\* rows.append(row)
AppendRow ==
    /\ rows' = Append(rows, [url |-> urls_list[i]])
    /\ last_event' = "row"

\* except Exception as e: print(... ERROR ...)
LogError(what) ==
    /\ last_event' = what
    /\ UNCHANGED rows

\* await page.goto(u); wait_idle; dismiss_overlays; the title
PageGoto ==
    /\ pc = "page_goto"
    /\ pc' = "extract"
    /\ UNCHANGED <<max_urls, max_minutes, urls, elapsed, last_height,
                   urls_list, i, cur, rows, open_pages, raised, saved, order,
                   stagnant, stop, last_event>>
    /\ UNCHANGED pageVars

\* page.goto(u) raises: caught by the per-page except, no row is appended
PageGotoRaises ==
    /\ pc = "page_goto"
    /\ LogError("nav_error")
    /\ pc' = NextRef(i)
    /\ i' = i + 1
    /\ UNCHANGED <<max_urls, max_minutes, urls, elapsed, last_height,
                   urls_list, cur, open_pages, raised, saved, order,
                   stagnant, stop>>
    /\ UNCHANGED pageVars

\* extract_host_block and extract_license_code (neither raises), then the
\* enrichment test; extract_from_host_profile returns at once without a
\* host_url and opens a page otherwise
Extract ==
    /\ pc = "extract"
    /\ \E c \in CurSet :
         IF NeedsEnrich(c.host_url, c.host_name, c.host_rating) /\ c.host_url
         THEN /\ cur' = c
              /\ open_pages' = open_pages + 1
              /\ pc' = "profile"
              /\ UNCHANGED <<i, rows, last_event>>
         ELSE /\ AppendRow
              /\ pc' = NextRef(i)
              /\ i' = i + 1
              /\ UNCHANGED <<cur, open_pages>>
    /\ UNCHANGED <<max_urls, max_minutes, urls, elapsed, last_height,
                   urls_list, raised, saved, order, stagnant, stop>>
    /\ UNCHANGED pageVars

\* context.new_page() raises in extract_from_host_profile (called with a
\* host_url): no page was opened
NewPageRaises ==
    /\ pc = "extract"
    /\ LogError("newpage_error")
    /\ pc' = NextRef(i)
    /\ i' = i + 1
    /\ UNCHANGED <<max_urls, max_minutes, urls, elapsed, last_height,
                   urls_list, cur, open_pages, raised, saved, order,
                   stagnant, stop>>
    /\ UNCHANGED pageVars

\* the try body of extract_from_host_profile completes; finally closes the page
Profile ==
    /\ pc = "profile"
    /\ open_pages' = CloseProfilePage(open_pages, FALSE)
    /\ AppendRow
    /\ cur' = NoCur
    /\ pc' = NextRef(i)
    /\ i' = i + 1
    /\ UNCHANGED <<max_urls, max_minutes, urls, elapsed, last_height,
                   urls_list, raised, saved, order, stagnant, stop>>
    /\ UNCHANGED pageVars

\* p.goto(host_url) (or wait_idle) raises: finally closes the page and the
\* exception reaches the per-page except of run()
ProfileRaises ==
    /\ pc = "profile"
    /\ open_pages' = CloseProfilePage(open_pages, TRUE)
    /\ LogError("profile_error")
    /\ cur' = NoCur
    /\ pc' = NextRef(i)
    /\ i' = i + 1
    /\ UNCHANGED <<max_urls, max_minutes, urls, elapsed, last_height,
                   urls_list, raised, saved, order, stagnant, stop>>
    /\ UNCHANGED pageVars

\* finally: await context.close(); await browser.close()
Finally ==
    /\ pc = "finally"
    /\ open_pages' = 0
    /\ pc' = IF raised THEN "aborted" ELSE "write"
    /\ UNCHANGED <<max_urls, max_minutes, urls, elapsed, last_height,
                   urls_list, i, cur, rows, raised, saved, order, stagnant,
                   stop, last_event>>
    /\ UNCHANGED pageVars

\* the CSV is written from rows
WriteCsv ==
    /\ pc = "write"
    /\ saved' = TRUE
    /\ pc' = "done"
    /\ UNCHANGED <<max_urls, max_minutes, urls, elapsed, last_height,
                   urls_list, i, cur, rows, open_pages, raised, order,
                   stagnant, stop, last_event>>
    /\ UNCHANGED pageVars

\* the state after browser, context and the main page are created and rows=[]
RunInit ==
    /\ pc = "goto_start"
    /\ max_urls \in 0..MaxListings
    /\ max_minutes \in 0..MaxMinutes
    /\ urls = {}
    /\ elapsed = 0
    /\ last_height = 0
    /\ urls_list = <<>>
    /\ i = 0
    /\ cur = NoCur
    /\ rows = <<>>
    /\ open_pages = 1
    /\ raised = FALSE
    /\ saved = FALSE
    /\ order = <<>>
    /\ stagnant = 0
    /\ stop = "none"
    /\ last_event = "none"

RunNext ==
    \/ GotoStart \/ GotoStartRaises
    \/ HarvestCycle \/ HarvestRaises \/ ScrollAndMeasure \/ ScrollRaises
    \/ LoopExit \/ ReturnUrls
    \/ PageGoto \/ PageGotoRaises
    \/ Extract \/ NewPageRaises
    \/ Profile \/ ProfileRaises
    \/ Finally \/ WriteCsv

\* the page-level variables are not used by run()'s control flow
PageIdle ==
    /\ ppc = "idle"
    /\ dom = <<>>
    /\ labels = <<>>
    /\ secText = <<>>
    /\ blk = <<>>
    /\ out = <<>>
    /\ row = <<>>

Init == RunInit /\ PageIdle

Next == RunNext

Spec == Init /\ [][Next]_vars

\* run() keeps executing until it returns or raises
FairSpec == Init /\ [][Next]_vars /\ WF_vars(Next)

----------------------------------------------------------------------------
\* Text.  A string that a regular expression reads character by character is
\* a sequence of one-character strings; a name or a region's visible text is
\* a sequence of words.

\* Python's None and JavaScript's null; like "" it is falsy
None == <<"<None>">>

\* truthiness of a str-or-None value
Truthy(x) == x # None /\ x # <<>>

\* a or b
OrElse(a, b) == IF Truthy(a) THEN a ELSE b

Digits == {"0", "1", "2", "3", "4", "5", "6", "7", "8", "9"}
\* [0-5]
Digits05 == {"0", "1", "2", "3", "4", "5"}
\* [,.]
DecimalMarks == {",", "."}

DigitVal(c) ==
    CASE c = "0" -> 0 [] c = "1" -> 1 [] c = "2" -> 2 [] c = "3" -> 3
      [] c = "4" -> 4 [] c = "5" -> 5 [] c = "6" -> 6 [] c = "7" -> 7
      [] c = "8" -> 8 [] c = "9" -> 9

DigitChar(n) == CHOOSE c \in Digits : DigitVal(c) = n

\* the character at index k, "" past either end
At(s, k) == IF k \in 1..Len(s) THEN s[k] ELSE ""

\* the word w stands in s at index k
HasAt(s, k, w) == \A j \in 1..Len(w) : At(s, k + j - 1) = w[j]

\* substring test (CSS [attr*="..."], Python `in`)
Contains(s, w) == \E k \in 1..Len(s) : HasAt(s, k, w)

\* \s* from index k: the index of the first character that is no space
RECURSIVE SkipSpaces(_, _)
SkipSpaces(s, k) == IF At(s, k) = " " THEN SkipSpaces(s, k + 1) ELSE k

\* (?:/|sur|de|von|da)
RatingSeps == {<<"/">>, <<"s", "u", "r">>, <<"d", "e">>, <<"v", "o", "n">>, <<"d", "a">>}

\* \s*(?:/|sur|de|von|da)?\s*5 matches at index k
RatingTailAt(s, k) ==
    LET a == SkipSpaces(s, k) IN
    \/ \E w \in RatingSeps : HasAt(s, a, w) /\ At(s, SkipSpaces(s, a + Len(w))) = "5"
    \/ At(s, a) = "5"

\* [,.]\d\d at index k, [,.]\d at index k
Frac2At(s, k) == At(s, k) \in DecimalMarks /\ At(s, k + 1) \in Digits /\ At(s, k + 2) \in Digits
Frac1At(s, k) == At(s, k) \in DecimalMarks /\ At(s, k + 1) \in Digits

\* length of group 1 of RATING_NEAR_HOST matched at index k (0: no match
\* there): the longest fraction first, backing off until the tail matches
RatingGroupLen(s, k) ==
    IF At(s, k) \notin Digits05 THEN 0
    ELSE IF Frac2At(s, k + 1) /\ RatingTailAt(s, k + 4) THEN 4
    ELSE IF Frac1At(s, k + 1) /\ RatingTailAt(s, k + 3) THEN 3
    ELSE IF RatingTailAt(s, k + 1) THEN 1
    ELSE 0

\* s.match(RATING_RE): group 1 of the leftmost match, None without a match
RatingNearHost(s) ==
    IF \E k \in 1..Len(s) : RatingGroupLen(s, k) > 0
    THEN LET k == CHOOSE a \in 1..Len(s) :
                    /\ RatingGroupLen(s, a) > 0
                    /\ \A b \in 1..(a - 1) : RatingGroupLen(s, b) = 0
         IN SubSeq(s, k, k + RatingGroupLen(s, k) - 1)
    ELSE None

\* .replace(',', '.')
ReplaceComma(s) == [k \in DOMAIN s |-> IF s[k] = "," THEN "." ELSE s[k]]

\* float(s) for s of the shape d, d.d or d.dd, in hundredths
Hundredths(s) ==
    100 * DigitVal(s[1])
    + (IF Len(s) >= 3 THEN 10 * DigitVal(s[3]) ELSE 0)
    + (IF Len(s) >= 4 THEN DigitVal(s[4]) ELSE 0)

\* str(round(x, 2)) of a float given in hundredths: "4.0", "4.9", "4.87"
PyStr(h) ==
    <<DigitChar(h \div 100), ".", DigitChar((h % 100) \div 10)>>
    \o (IF h % 10 = 0 THEN <<>> ELSE <<DigitChar(h % 10)>>)

\* the Normalize step of extract_host_block
NormalizeRating(r) ==
    IF Truthy(r) THEN PyStr(Hundredths(ReplaceComma(r))) ELSE r

\* the rating of the host section: the first aria-label that matches, else
\* the section's text
RECURSIVE FirstLabelRating(_)
FirstLabelRating(ls) ==
    IF ls = <<>> THEN None
    ELSE IF RatingNearHost(Head(ls)) # None
         THEN ReplaceComma(RatingNearHost(Head(ls)))
         ELSE FirstLabelRating(Tail(ls))

SectionRating(ls, txt) ==
    IF Truthy(FirstLabelRating(ls)) THEN FirstLabelRating(ls)
    ELSE IF RatingNearHost(txt) # None THEN ReplaceComma(RatingNearHost(txt))
    ELSE None

\* re.search(r'([0-5](?:[.,]\d{1,2})?)', al): the leftmost digit 0-5 with the
\* longest fraction that follows it
ProfileRatingMatch(s) ==
    IF \E k \in 1..Len(s) : s[k] \in Digits05
    THEN LET k == CHOOSE a \in 1..Len(s) :
                    s[a] \in Digits05 /\ \A b \in 1..(a - 1) : s[b] \notin Digits05
         IN SubSeq(s, k, k + (IF Frac2At(s, k + 1) THEN 3
                              ELSE IF Frac1At(s, k + 1) THEN 2 ELSE 0))
    ELSE None

\* [aria-label*="out of 5"], [aria-label*="sur 5"], [aria-label*="de 5"], [aria-label*="von 5"]
ProfileSelectors ==
    {<<"o", "u", "t", " ", "o", "f", " ", "5">>, <<"s", "u", "r", " ", "5">>,
     <<"d", "e", " ", "5">>, <<"v", "o", "n", " ", "5">>}

SelectedByProfileLocator(al) == \E w \in ProfileSelectors : Contains(al, w)

\* the for loop over al_nodes: the first selected label in which the regular
\* expression finds a number gives the rating
RECURSIVE ProfileRating(_)
ProfileRating(ls) ==
    IF ls = <<>> THEN None
    ELSE IF SelectedByProfileLocator(Head(ls)) /\ ProfileRatingMatch(Head(ls)) # None
         THEN ReplaceComma(ProfileRatingMatch(Head(ls)))
         ELSE ProfileRating(Tail(ls))

\* whitespace words, as innerText may carry them around a heading
IsBlank(w) == w = " "

\* nm.strip(), on a sequence of words
RECURSIVE StripLeft(_)
StripLeft(t) == IF t # <<>> /\ IsBlank(Head(t)) THEN StripLeft(Tail(t)) ELSE t
RECURSIVE StripRight(_)
StripRight(t) ==
    IF t # <<>> /\ IsBlank(t[Len(t)]) THEN StripRight(SubSeq(t, 1, Len(t) - 1)) ELSE t
Strip(t) == StripRight(StripLeft(t))

\* aria-labels and section texts the pages can carry
\* "4,87 sur 5"
TxtSur == <<"4", ",", "8", "7", " ", "s", "u", "r", " ", "5">>
\* "4.9/5"
TxtSlash == <<"4", ".", "9", "/", "5">>
\* "2.1 / 5"
TxtLow == <<"2", ".", "1", " ", "/", " ", "5">>
\* "2.1 out of 5"
TxtLowOutOf == <<"2", ".", "1", " ", "o", "u", "t", " ", "o", "f", " ", "5">>
\* "15 avis"
TxtCount == <<"1", "5", " ", "a", "v", "i", "s">>
\* "Superhost"
TxtNoNumber == <<"S", "u", "p", "e", "r", "h", "o", "s", "t">>

RatingTexts == {TxtSur, TxtSlash, TxtLow, TxtLowOutOf, TxtCount, TxtNoNumber}

----------------------------------------------------------------------------
\* The listing page's DOM.  Nodes 1..n in document order, node 1 is <body>;
\* parent[k] < k; wrap[k] counts the plain wrapper <div>s (no text of their
\* own) that stand between node k and its parent.

\* most nodes of a generated tree
MaxNodes == 4
\* el = el.parentElement is followed `steps < 6` times; box.parentElement 6 times
AncestorSteps == 6
\* if(t && t.length <= 60)
MaxNameLen == 60
\* wrappers around a deeply nested section
Deep == 6

\* "div": a container; "hosted_by": the text "Hosted by Alice";
\* "reviews_h": the heading "Reviews"; "a_host": a /users/show/ link to the
\* host with the text "Alice"; "a_labelled": a /users/show/ link to the host
\* without text, aria-label "Go to Host full profile"; "a_reviewer": a
\* /users/show/ link to a reviewer with the text "Bob".
Kinds == {"div", "hosted_by", "reviews_h", "a_host", "a_labelled", "a_reviewer"}
AnchorKinds == {"a_host", "a_labelled", "a_reviewer"}

HostUrl == <<"/users/show/1">>
ReviewerUrl == <<"/users/show/2">>

\* a is k or an ancestor of k
RECURSIVE IsWithin(_, _, _)
IsWithin(d, a, k) == k = a \/ (k > 1 /\ IsWithin(d, a, d.parent[k]))

\* trees in document (pre-)order: a node's parent is the previous node or
\* one of its ancestors
Parents(n) ==
    {p \in [1..n -> 0..(n - 1)] :
        /\ p[1] = 0
        /\ \A k \in 2..n : p[k] \in 1..(k - 1)
        /\ \A k \in 3..n : IsWithin([parent |-> p], p[k], k - 1)}

\* only a <div> has children
KindsOn(n, p) ==
    {c \in [1..n -> Kinds] :
        /\ c[1] = "div"
        /\ \A k \in 2..n : c[p[k]] = "div"}

\* the sections directly under <body> may be deeply nested
WrapsOn(n, p) ==
    {w \in [1..n -> {0, Deep}] : \A k \in 1..n : p[k] # 1 => w[k] = 0}

DomsOf(n) ==
    UNION {UNION {{[n |-> n, parent |-> p, kind |-> c, wrap |-> w] : w \in WrapsOn(n, p)}
                  : c \in KindsOn(n, p)} : p \in Parents(n)}

\* every tree of at most m nodes
DomsUpTo(m) == UNION {DomsOf(n) : n \in 1..m}

\* the visible text of a node itself
OwnText(d, k) ==
    CASE d.kind[k] = "hosted_by" -> <<"Hosted", "by", "Alice">>
      [] d.kind[k] = "reviews_h" -> <<"Reviews">>
      [] d.kind[k] = "a_host" -> <<"Alice">>
      [] d.kind[k] = "a_reviewer" -> <<"Bob">>
      [] OTHER -> <<>>

\* clean(el.innerText) of node a: the words of its subtree in document order
RECURSIVE TextFrom(_, _, _)
TextFrom(d, a, k) ==
    IF k > d.n THEN <<>>
    ELSE (IF IsWithin(d, a, k) THEN OwnText(d, k) ELSE <<>>) \o TextFrom(d, a, k + 1)

\* An element: node k itself (up = 0), the up-th wrapper above it, <html>
\* (node 0), or null.
Null == [node |-> -1, up |-> 0]
Html == [node |-> 0, up |-> 0]
Body == [node |-> 1, up |-> 0]
Elem(k) == [node |-> k, up |-> 0]

\* el.parentElement
ParentElement(d, e) ==
    IF e = Null \/ e = Html THEN Null
    ELSE IF e.up < d.wrap[e.node] THEN [e EXCEPT !.up = e.up + 1]
    ELSE IF e.node = 1 THEN Html
    ELSE Elem(d.parent[e.node])

\* parentElement followed j times; null stays null
RECURSIVE Up(_, _, _)
Up(d, e, j) == IF j = 0 \/ e = Null THEN e ELSE Up(d, ParentElement(d, e), j - 1)

\* clean(el.innerText); <html> and a wrapper show the text of what they hold
InnerText(d, e) == TextFrom(d, IF e.node = 0 THEN 1 ELSE e.node, 1)

\* the element holds a node of the given kind
Holds(d, e, kind) ==
    \E k \in 1..d.n : d.kind[k] = kind /\ IsWithin(d, IF e.node = 0 THEN 1 ELSE e.node, k)

\* HOST_RE.test on a word: HOST_KEYWORDS contains the alternative "host" and
\* is case-insensitive, so it matches inside "Hosted" and "Host"
HasHostKeyword(w) == w \in {"Hosted", "Host", "host"}

HostReTest(t) == \E k \in DOMAIN t : HasHostKeyword(t[k])

\* document.querySelectorAll('a[href*="/users/show/"]'), in document order
IsAnchor(d, k) == d.kind[k] \in AnchorKinds

\* the while loop of the `outer` loop: the anchor or one of its first
\* AncestorSteps - 1 ancestors has text that matches HOST_RE
NearHostText(d, a) ==
    \E j \in 0..(AncestorSteps - 1) :
        /\ Up(d, Elem(a), j) # Null
        /\ HostReTest(InnerText(d, Up(d, Elem(a), j)))

\* (a.getAttribute('aria-label')||'') + ' ' + (a.title||'') matches HOST_RE
LabelledHost(d, a) == d.kind[a] = "a_labelled"

\* the first node of a set of nodes in document order, 0 (null) for none
FirstOf(S) == IF S = {} THEN 0 ELSE CHOOSE a \in S : \A b \in S : a <= b

\* hostA (0 for null): the first anchor near host text, else the first
\* anchor labelled as host, else anchors[0]
FindHostAnchor(d) ==
    LET anchors == {a \in 1..d.n : IsAnchor(d, a)}
        near == {a \in anchors : NearHostText(d, a)}
        labelled == {a \in anchors : LabelledHost(d, a)}
    IN IF near # {} THEN FirstOf(near)
       ELSE IF labelled # {} THEN FirstOf(labelled)
       ELSE FirstOf(anchors)

\* new URL(hostA.getAttribute('href'), location.origin).toString()
AnchorUrl(d, a) == IF d.kind[a] = "a_reviewer" THEN ReviewerUrl ELSE HostUrl

\* box: parentElement AncestorSteps times; root = box || document.body
NameRegion(d, a) ==
    IF Up(d, Elem(a), AncestorSteps) = Null THEN Body ELSE Up(d, Elem(a), AncestorSteps)

\* txt.match(/Hosted by\s+([^\n•|,]+)/i): clean() has turned every line
\* break into a space, so group 1 runs to the end of the region's text.  The
\* words of the model match none of the other four patterns.
HostedByName(t) ==
    IF \E k \in 1..(Len(t) - 2) : t[k] = "Hosted" /\ t[k + 1] = "by"
    THEN LET k == CHOOSE a \in 1..(Len(t) - 2) :
                    /\ t[a] = "Hosted" /\ t[a + 1] = "by"
                    /\ \A b \in 1..(a - 1) : ~(t[b] = "Hosted" /\ t[b + 1] = "by")
         IN SubSeq(t, k + 2, Len(t))
    ELSE None

\* t.length of words joined by single spaces
RECURSIVE TextLen(_)
TextLen(t) ==
    IF t = <<>> THEN 0
    ELSE Len(Head(t)) + (IF Len(t) > 1 THEN 1 ELSE 0) + TextLen(Tail(t))

\* host_name: the "Hosted by" capture in the region, else the anchor's own
\* text when it is non-empty and at most MaxNameLen long
HostName(d, a) ==
    IF Truthy(HostedByName(InnerText(d, NameRegion(d, a))))
    THEN HostedByName(InnerText(d, NameRegion(d, a)))
    ELSE IF OwnText(d, a) # <<>> /\ TextLen(OwnText(d, a)) <= MaxNameLen
         THEN OwnText(d, a)
         ELSE None

NoBlock == [host_profile_url |-> None, host_name |-> None, host_overall_rating |-> None]

\* extract_host_block(page) on the DOM d whose host section carries the
\* aria-labels ls and the text txt
HostBlock(d, ls, txt) ==
    LET a == FindHostAnchor(d) IN
    IF a = 0 THEN NoBlock
    ELSE [host_profile_url |-> AnchorUrl(d, a),
          host_name |-> HostName(d, a),
          host_overall_rating |-> NormalizeRating(SectionRating(ls, txt))]

----------------------------------------------------------------------------
\* One iteration of run()'s per-page loop, in detail

\* most aria-labels a host section or a profile page carries
MaxLabels == 1

LabelSeqs == UNION {[1..n -> RatingTexts] : n \in 0..MaxLabels}

\* what p.locator('h1, h2').first.inner_text() gives: None when there is no
\* heading (the locator times out), else the heading's words
HeadingTexts == {None, <<" ">>, <<" ", "Carol", " ">>}

\* what the Joined script returns
JoinedTexts == {None, <<"2019">>}

\* the profile heading taken whether or not a name was resolved
ProfileNameAlways(current, h) == IF h = None THEN current ELSE Strip(h)

\* `if not out["host_name"]`: the profile heading fills a missing name only
ProfileName(current, h) ==
    IF Truthy(current) \/ h = None THEN current ELSE Strip(h)

\* `if not out["host_overall_rating"]`: the profile's aria-labels fill a
\* missing rating only
ProfileRatingField(current, ls) ==
    IF Truthy(current) \/ ProfileRating(ls) = None THEN current ELSE ProfileRating(ls)

\* extract_from_host_profile without a host_url: out as initialised
OutOfCurrent(b) ==
    [host_name |-> b.host_name, host_overall_rating |-> b.host_overall_rating,
     host_joined |-> None]

\* extract_from_host_profile on a profile page with heading h, aria-labels
\* ls and joined text j
OutOfProfile(b, h, ls, j) ==
    [host_name |-> ProfileName(b.host_name, h),
     host_overall_rating |-> ProfileRatingField(b.host_overall_rating, ls),
     host_joined |-> IF Truthy(j) THEN j ELSE None]

\* the row run() builds after the enrichment branch
RowOf(b, o) ==
    [host_name |-> OrElse(OrElse(o.host_name, b.host_name), <<>>),
     host_overall_rating |-> OrElse(OrElse(o.host_overall_rating, b.host_overall_rating), <<>>),
     host_profile_url |-> OrElse(b.host_profile_url, <<>>),
     host_joined |-> OrElse(o.host_joined, <<>>)]

\* the row of the else branch: host_joined = None
RowOfBlock(b) ==
    [host_name |-> OrElse(b.host_name, <<>>),
     host_overall_rating |-> OrElse(b.host_overall_rating, <<>>),
     host_profile_url |-> OrElse(b.host_profile_url, <<>>),
     host_joined |-> <<>>]

\* host_blk = await extract_host_block(page)
PHostBlock ==
    /\ ppc = "start"
    /\ blk' = HostBlock(dom, labels, secText)
    /\ ppc' = "extracted"
    /\ UNCHANGED <<dom, labels, secText, out, row>>
    /\ UNCHANGED runVars

\* the enrichment test of run() and the entry of extract_from_host_profile
PEnrich ==
    /\ ppc = "extracted"
    /\ IF NeedsEnrich(Truthy(blk.host_profile_url), Truthy(blk.host_name),
                      Truthy(blk.host_overall_rating))
       THEN IF ~Truthy(blk.host_profile_url)
            THEN /\ out' = OutOfCurrent(blk)
                 /\ row' = RowOf(blk, OutOfCurrent(blk))
                 /\ ppc' = "done"
            ELSE /\ ppc' = "profile"
                 /\ UNCHANGED <<out, row>>
       ELSE /\ row' = RowOfBlock(blk)
            /\ ppc' = "done"
            /\ UNCHANGED out
    /\ UNCHANGED <<dom, labels, secText, blk>>
    /\ UNCHANGED runVars

\* context.new_page() raises: the per-page except, no row
PNewPageRaises ==
    /\ ppc = "extracted"
    /\ Truthy(blk.host_profile_url)
    /\ ppc' = "error"
    /\ UNCHANGED <<dom, labels, secText, blk, out, row>>
    /\ UNCHANGED runVars

\* the try body of extract_from_host_profile on some profile page, then the
\* row
PProfile ==
    /\ ppc = "profile"
    /\ \E h \in HeadingTexts, ls \in LabelSeqs, j \in JoinedTexts :
         /\ out' = OutOfProfile(blk, h, ls, j)
         /\ row' = RowOf(blk, OutOfProfile(blk, h, ls, j))
    /\ ppc' = "done"
    /\ UNCHANGED <<dom, labels, secText, blk>>
    /\ UNCHANGED runVars

\* p.goto(host_url) raises: the per-page except, no row
PProfileRaises ==
    /\ ppc = "profile"
    /\ ppc' = "error"
    /\ UNCHANGED <<dom, labels, secText, blk, out, row>>
    /\ UNCHANGED runVars

PageNext == PHostBlock \/ PEnrich \/ PNewPageRaises \/ PProfile \/ PProfileRaises

\* run() is inside its per-page loop, on the listing page
RunOnPage ==
    /\ pc = "extract"
    /\ max_urls = 1
    /\ max_minutes = 1
    /\ urls = {}
    /\ elapsed = 0
    /\ last_height = 0
    /\ urls_list = <<>>
    /\ i = 1
    /\ cur = NoCur
    /\ rows = <<>>
    /\ open_pages = 1
    /\ raised = FALSE
    /\ saved = FALSE
    /\ order = <<>>
    /\ stagnant = 0
    /\ stop = "limit"
    /\ last_event = "none"

PageStart ==
    /\ ppc = "start"
    /\ blk = NoBlock
    /\ out = OutOfCurrent(NoBlock)
    /\ row = RowOfBlock(NoBlock)

EmptyDom == [n |-> 1, parent |-> <<0>>, kind |-> <<"div">>, wrap |-> <<0>>]
LinkDom(k) == [n |-> 2, parent |-> <<0, 1>>, kind |-> <<"div", k>>, wrap |-> <<0, 0>>]
CardDom(k) ==
    [n |-> 4, parent |-> <<0, 1, 2, 2>>, kind |-> <<"div", "div", "hosted_by", k>>,
     wrap |-> <<0, Deep, 0, 0>>]

\* listing pages for the field checks: no profile link, a bare host link, a
\* labelled host link without text, a host card
PageDoms == {EmptyDom, LinkDom("a_host"), LinkDom("a_labelled"), CardDom("a_labelled")}

\* a listing page with a host block (<div>: "Hosted by Alice" and a host
\* link) and a reviews block (<div>: "Reviews" and a reviewer link), in
\* either order, each shallow or deeply nested
SectionedDom(hostFirst, hostKind, wh, wr) ==
    IF hostFirst
    THEN [n |-> 7, parent |-> <<0, 1, 2, 2, 1, 5, 5>>,
          kind |-> <<"div", "div", "hosted_by", hostKind, "div", "reviews_h", "a_reviewer">>,
          wrap |-> <<0, wh, 0, 0, wr, 0, 0>>]
    ELSE [n |-> 7, parent |-> <<0, 1, 2, 2, 1, 5, 5>>,
          kind |-> <<"div", "div", "reviews_h", "a_reviewer", "div", "hosted_by", hostKind>>,
          wrap |-> <<0, wr, 0, 0, wh, 0, 0>>]

SectionedDoms ==
    {SectionedDom(f, k, wh, wr) :
        f \in BOOLEAN, k \in {"a_host", "a_labelled"}, wh \in {0, Deep}, wr \in {0, Deep}}

PageInit ==
    /\ RunOnPage /\ PageStart
    /\ dom \in PageDoms
    /\ labels \in LabelSeqs
    /\ secText \in RatingTexts

HostInit ==
    /\ RunOnPage /\ PageStart
    /\ dom \in DomsUpTo(MaxNodes) \cup SectionedDoms
    /\ labels = <<>>
    /\ secText = TxtSlash

\* the field pipeline over rating texts and profile pages
SpecPage == PageInit /\ [][PageNext]_vars

\* the host block over DOM trees
SpecHost == HostInit /\ [][PageNext]_vars

----------------------------------------------------------------------------
\* Properties of run() and get_listing_urls (Spec, FairSpec)

\* get_listing_urls has returned its list to run()
Returned == stop \in {"page_end", "limit"} /\ pc \notin {"collect", "scroll", "return"}

\* the for loop of run() has finished
LoopDone == Returned /\ pc \in {"finally", "write", "done"}

NoListingTwice(l) == \A a, b \in DOMAIN l : a # b => l[a].room # l[b].room

\* C1: the list returned by get_listing_urls has at most max_urls elements and
\* holds no listing reference twice (a reference is the listing's path, the
\* query stripped), whatever the feed showed.
C1_BoundedUnique ==
    Returned =>
        /\ Len(urls_list) <= max_urls
        /\ NoListingTwice(urls_list)
        /\ \A k \in DOMAIN urls_list : ~urls_list[k].query

\* C1 witness: a full list of two references was returned
C1_Witness == Returned /\ max_urls >= 2 /\ Len(urls_list) = max_urls

LongestCycle == CHOOSE d \in CycleSecs : \A e \in CycleSecs : e <= d

\* C2: collection ends, no cycle starts once elapsed >= MAX_MINUTES*60, and
\* so the clock never passes the budget by a whole cycle.
C2_BudgetIsHard ==
    /\ <>(pc \notin {"goto_start", "collect", "scroll"})
    /\ [][(pc = "collect" /\ pc' = "scroll") => elapsed < max_minutes * 60]_vars
    /\ [](elapsed < max_minutes * 60 + LongestCycle)

\* C2 witness: the loop ended on the budget, below max_urls, after a cycle
\* that still added a reference
C2_Witness ==
    /\ pc = "return" /\ stop = "limit"
    /\ max_minutes >= 1 /\ elapsed >= max_minutes * 60
    /\ Cardinality(urls) < max_urls
    /\ stagnant = 0

\* C3: once the per-page loop has finished there are as many rows as
\* collected references.
C3_OneRowPerReference == LoopDone => Len(rows) = Len(urls_list)

\* C4: the returned list is the first min(max_urls, discovered) references in
\* first-seen order.
C4_DiscoveryOrder == [][pc = "return" => urls_list' = Take(order, max_urls)]_vars

\* C5: an error raised during collection does not propagate out of run():
\* the run still ends with the output written.
C5_CollectErrorNotFatal ==
    stop = "error" => (~raised /\ (pc \in {"aborted", "done"} => saved))

\* the loop ended by its break, below max_urls and within the budget
EarlyStop ==
    /\ pc = "return" /\ stop = "page_end"
    /\ Cardinality(urls) < max_urls
    /\ elapsed < max_minutes * 60

\* C9: collection stops early only after at least two consecutive cycles in
\* which the reference set did not grow.
C9_StopsOnlyOnStagnation == EarlyStop => stagnant >= 2

\* C10: at most two pages are open, exactly one whenever the loop is at a
\* reference boundary or extracting from the listing page, and a second page
\* is open only inside extract_from_host_profile called with a host_url.
C10_PagesDoNotLeak ==
    /\ open_pages <= 2
    /\ (pc \in {"page_goto", "extract"} \/ (LoopDone /\ pc = "finally")) => open_pages = 1
    /\ open_pages = 2 => (pc = "profile" /\ cur.host_url)

\* C10 witness: the loop starts a reference right after a profile visit that
\* raised
C10_Witness ==
    /\ pc = "page_goto" /\ i >= 2
    /\ last_event = "profile_error"

----------------------------------------------------------------------------
\* Properties of one detail page (SpecPage, SpecHost)

\* C6: in the emitted row, a host_name (a host_overall_rating) that
\* extract_host_block resolved is the row's value, whatever the profile page
\* holds.
C6_EnrichNeverOverwrites ==
    ppc = "done" =>
        /\ Truthy(blk.host_name) => row.host_name = blk.host_name
        /\ Truthy(blk.host_overall_rating) =>
               row.host_overall_rating = blk.host_overall_rating

\* C6 witness: name and rating were resolved on the listing page and the
\* profile page was read (it gave the joined date)
C6_Witness ==
    /\ ppc = "done"
    /\ Truthy(blk.host_name) /\ Truthy(blk.host_overall_rating)
    /\ Truthy(out.host_joined)

\* C7: the row's host_overall_rating is empty or a decimal in [3.0, 5.0].
C7_RatingPlausible ==
    ppc = "done" =>
        \/ row.host_overall_rating = <<>>
        \/ Hundredths(row.host_overall_rating) \in 300..500

\* the page has a host block and a reviews block holding a reviewer link
HostBlockAt(d, h) ==
    /\ h # 1 /\ d.kind[h] = "div"
    /\ Holds(d, Elem(h), "hosted_by")
    /\ Holds(d, Elem(h), "a_host") \/ Holds(d, Elem(h), "a_labelled")
    /\ ~Holds(d, Elem(h), "reviews_h") /\ ~Holds(d, Elem(h), "a_reviewer")

ReviewsBlockAt(d, r) ==
    /\ r # 1 /\ d.kind[r] = "div"
    /\ Holds(d, Elem(r), "reviews_h") /\ Holds(d, Elem(r), "a_reviewer")
    /\ ~Holds(d, Elem(r), "hosted_by")
    /\ ~Holds(d, Elem(r), "a_host") /\ ~Holds(d, Elem(r), "a_labelled")

Sectioned(d) ==
    /\ \E h \in 1..d.n : HostBlockAt(d, h)
    /\ \E r \in 1..d.n : ReviewsBlockAt(d, r)

\* C8: on a page with a host block and a reviews block, the anchor chosen as
\* host anchor is no reviewer link and the region whose text gives host_name
\* does not hold the reviews heading.
C8_HostNeverFromReviews ==
    (ppc # "start" /\ Sectioned(dom)) =>
        /\ FindHostAnchor(dom) # 0
        /\ dom.kind[FindHostAnchor(dom)] # "a_reviewer"
        /\ blk.host_profile_url # ReviewerUrl
        /\ ~Holds(dom, NameRegion(dom, FindHostAnchor(dom)), "reviews_h")

====
